---- MODULE Spec2Model ----
(***************************************************************************)
(* convNEAT: a population of genomes (feed-forward graphs whose edges are  *)
(* genes) that share one id generator and one per-generation innovation    *)
(* cache.  genome.py is the refactored Genome; ConvNEAT.py holds the gene  *)
(* and node classes, the prototype Genome and the Population.              *)
(*                                                                         *)
(* Depths are Python floats in the code: binary floating point, every     *)
(* operation rounded to the nearest value of the format, ties to even.     *)
(* Here a depth is such a number m * 2^e with a mantissa of MantissaBits   *)
(* bits (53 in the code) and an exponent without bound.                    *)
(***************************************************************************)
EXTENDS Integers, Sequences, FiniteSets, TLC

VARIABLES
    \* the mutation machine: a population of refactored genomes
    genomes, id_generator, this_gen_mutations,
    \* the gene machine: one KernelGene and the last output_size computed
    kgene, ksize,
    \* the checkpoint machine: one genome and the save it last loaded
    lgenome, loaded,
    \* the evolution machine: the prototype Population
    population

mvars == <<genomes, id_generator, this_gen_mutations>>
kvars == <<kgene, ksize>>
lvars == <<lgenome, loaded>>
pvars == <<population>>
vars == <<mvars, kvars, lvars, pvars>>

\* ------------------------------------------------------------- bounds
\* Genomes of the population of the mutation machine (the n of
\* Population.__init__).
NGenomes == 2
\* The genes of the whole population of the mutation machine (4 at the
\* start): two splits, or a split and two added genes, or four added genes.
MaxGenes == 8

\* Bits of the mantissa of a float.
MantissaBits == 6

\* ------------------------------------------------------------ floats
RECURSIVE Pow(_, _)
Pow(b, n) == IF n = 0 THEN 1 ELSE b * Pow(b, n - 1)

\* A float m * 2^e is held as the integer (e + ExponentBias) * 2^MantissaBits
\* + m, negated for a negative float and 0 for 0.0: the order of the floats
\* is the order of these integers.
ExponentBias == 40
MantissaMin == Pow(2, MantissaBits - 1)
MantissaEnd == Pow(2, MantissaBits)
Abs(a) == IF a < 0 THEN -a ELSE a
Mantissa(a) == IF a < 0 THEN -(Abs(a) % MantissaEnd) ELSE a % MantissaEnd
Exponent(a) == IF a = 0 THEN 0 ELSE Abs(a) \div MantissaEnd - ExponentBias

\* The float nearest to (n / d) * 2^e for integers n >= 0 and d > 0: the
\* mantissa is 0 or has exactly MantissaBits bits; a tie goes to the even
\* mantissa.
RECURSIVE RoundPos(_, _, _)
RoundPos(n, d, e) ==
    IF n = 0 THEN 0
    ELSE IF n < d * MantissaMin THEN RoundPos(2 * n, d, e - 1)
    ELSE IF n >= d * MantissaEnd THEN RoundPos(n, 2 * d, e + 1)
    ELSE LET q == n \div d
             r == n % d
             m == IF 2 * r > d \/ (2 * r = d /\ q % 2 = 1) THEN q + 1 ELSE q
         IN  IF m = MantissaEnd
             THEN (e + 1 + ExponentBias) * MantissaEnd + MantissaMin
             ELSE (e + ExponentBias) * MantissaEnd + m

Round(n, d, e) == IF n < 0 THEN -RoundPos(-n, d, e) ELSE RoundPos(n, d, e)

\* float(k) of an integer k.
FromInt(k) == Round(k, 1, 0)

\* The mantissa of a at the smaller of the exponents of a and b.
MinExp(a, b) == IF Exponent(a) < Exponent(b) THEN Exponent(a) ELSE Exponent(b)
Aligned(a, b) == Mantissa(a) * Pow(2, Exponent(a) - MinExp(a, b))

\* a + b, a - b, a / k (k a positive integer) and a < b of floats.
FAdd(a, b) == Round(Aligned(a, b) + Aligned(b, a), 1, MinExp(a, b))
FSub(a, b) == Round(Aligned(a, b) - Aligned(b, a), 1, MinExp(a, b))
FDiv(a, k) == Round(Mantissa(a), k, Exponent(a))
FLess(a, b) == a < b

\* ------------------------------------------------------ gene classes
\* Gene.__init__: a gene is created enabled.
Gene(id, id_in, id_out, mutate_to) ==
    [id |-> id, id_in |-> id_in, id_out |-> id_out, enabled |-> TRUE,
     type |-> "Gene", mutate_to |-> mutate_to]

\* The classes of positive weight in each class's init_mutate_to.
InitMutateTo(type) ==
    CASE type = "Gene" -> {"KernelGene", "DenseGene"}
      [] type = "KernelGene" -> {"KernelGene", "PoolGene"}
      [] type = "PoolGene" -> {"KernelGene", "PoolGene"}
      [] type = "DenseGene" -> {"DenseGene"}

\* KernelGene / PoolGene / DenseGene (id, id_in, id_out).
NewGene(type, id, id_in, id_out) ==
    [id |-> id, id_in |-> id_in, id_out |-> id_out, enabled |-> TRUE,
     type |-> type, mutate_to |-> InitMutateTo(type)]

\* A Gene.mutate_random that returns the gene it was called on.
GeneMutateRandomSelf(g) == {g}

\* Gene.mutate_random: the abstract gene is replaced by a gene of a class
\* drawn from mutate_to; a concrete gene returns itself.
GeneMutateRandom(g) ==
    IF g.type = "Gene"
    THEN {NewGene(t, g.id, g.id_in, g.id_out) : t \in g.mutate_to}
    ELSE {g}

\* gene.copy(id, id_in, id_out): None for the abstract Gene (its body is
\* pass), a new enabled gene of the same class otherwise.
NoneGene == [type |-> "None"]

GeneCopy(g, id, id_in, id_out) ==
    IF g.type = "Gene" THEN NoneGene ELSE NewGene(g.type, id, id_in, id_out)

\* gene.add_after(id, id_in, id_out) = weighted_choice(*mutate_to)(id, id_in,
\* id_out), with cls the class drawn (one of positive weight).
AddAfterClasses(g) == g.mutate_to

GeneAddAfter(g, cls, id, id_in, id_out) == NewGene(cls, id, id_in, id_out)

\* Node(id, depth, role=None).
Node(id, depth, role) == [id |-> id, depth |-> depth, role |-> role]

\* ----------------------------------------------------------- Genome
\* dicts_by_id: a later entry of the list overrides an earlier one of the
\* same id.  A map holds the position of the object it refers to.
RECURSIVE ById(_, _)
ById(list, n) ==
    IF n = 0 THEN <<>>
    ELSE (list[n].id :> n) @@ ById(list, n - 1)

dicts_by_id(nodes, genes) ==
    [genes_by_id |-> ById(genes, Len(genes)),
     nodes_by_id |-> ById(nodes, Len(nodes))]

\* Genome.__init__ with no nodes or genes given.
MakeGenome(nodes, genes) ==
    [nodes |-> nodes, genes |-> genes,
     nodes_by_id |-> dicts_by_id(nodes, genes).nodes_by_id,
     genes_by_id |-> dicts_by_id(nodes, genes).genes_by_id]

\* Genome.init_genome of genome.py.
init_genome ==
    {MakeGenome(<<Node(0, FromInt(0), "input"), Node(1, FromInt(1), "flatten"),
                  Node(2, FromInt(2), "output")>>,
                <<g3, g4>>) :
        g3 \in GeneMutateRandom(Gene(3, 0, 1, {"KernelGene"})),
        g4 \in GeneMutateRandom(Gene(4, 1, 2, {"DenseGene"}))}

\* next_id: the id handed out, and the generator afterwards.
\* A generator that hands the same id out again.
next_id_again(gen) == [id |-> gen - 1, gen |-> gen + 1]
next_id(gen) == [id |-> gen, gen |-> gen + 1]

\* Positions of the enabled / disabled genes, in list order.
EnabledEdges(genes) == {i \in 1..Len(genes) : genes[i].enabled}
DisabledEdges(genes) == {i \in 1..Len(genes) : ~genes[i].enabled}

\* Genome.dfs(id_s, id_t): depth-first search without a visited set.  The
\* recursion is cut after `fuel` nested calls: "overflow" stands for a
\* search that would not return (the recursion limit of the interpreter).
\* A search that follows the first neighbour only.
RECURSIVE dfs_first(_, _, _, _)
dfs_first(genes, id_s, id_t, fuel) ==
    IF id_s = id_t THEN "true"
    ELSE IF fuel = 0 THEN "overflow"
    ELSE LET neig == SelectSeq(genes, LAMBDA e : e.id_in = id_s /\ e.enabled)
         IN  IF Len(neig) = 0 THEN "false"
             ELSE dfs_first(genes, neig[1].id_out, id_t, fuel - 1)

RECURSIVE dfs(_, _, _, _)
RECURSIVE dfsNeig(_, _, _, _, _)
dfs(genes, id_s, id_t, fuel) ==
    IF id_s = id_t THEN "true"
    ELSE IF fuel = 0 THEN "overflow"
    ELSE LET neig == SelectSeq(genes, LAMBDA e : e.id_in = id_s /\ e.enabled)
         IN  IF Len(neig) = 0 THEN "false"
             ELSE dfsNeig(genes, neig, 1, id_t, fuel - 1)

dfsNeig(genes, neig, k, id_t, fuel) ==
    IF k > Len(neig) THEN "false"
    ELSE LET r == dfs(genes, neig[k].id_out, id_t, fuel)
         IN  IF r = "false" THEN dfsNeig(genes, neig, k + 1, id_t, fuel)
             ELSE r

\* A simple path has fewer edges than the genome has genes + 1.
DfsFuel(genes) == Len(genes) + 1

\* A disable_edge that never takes the change back.
disable_edge_kept(G, pos) ==
    [genome |-> [G EXCEPT !.genes[pos].enabled = FALSE], ok |-> TRUE]

\* Genome.disable_edge(gene): disable, and take it back when node 2 can no
\* longer be reached from node 0.
disable_edge(G, pos) ==
    LET off == [G EXCEPT !.genes[pos].enabled = FALSE]
    IN  IF dfs(off.genes, 0, 2, DfsFuel(off.genes)) = "false"
        THEN [genome |-> G, ok |-> FALSE]
        ELSE [genome |-> off, ok |-> TRUE]

\* A loop that goes on after a disable that held.
RECURSIVE disable_loop_on(_, _, _)
disable_loop_on(G, picks, k) ==
    IF k > Len(picks) THEN [genome |-> G, drawn |-> Len(picks)]
    ELSE disable_loop_on(disable_edge(G, picks[k]).genome, picks, k + 1)

\* The loop of Genome.mutate_disable_edge: picks[k] is the k-th
\* random.choice(enabled_edges); `drawn` counts the choices made.
RECURSIVE disable_loop(_, _, _)
disable_loop(G, picks, k) ==
    IF k > Len(picks) THEN [genome |-> G, drawn |-> Len(picks)]
    ELSE LET r == disable_edge(G, picks[k])
         IN  IF r.ok THEN [genome |-> r.genome, drawn |-> k]
             ELSE disable_loop(r.genome, picks, k + 1)

\* Genome.mutate_disable_edge(tries): len(picks) = tries.
mutate_disable_edge(G, picks) ==
    IF EnabledEdges(G.genes) # {} THEN disable_loop(G, picks, 1)
    ELSE [genome |-> G, drawn |-> 0]

\* Genome.enable_edge with random.choice(disabled_edges) = pos.
enable_edge(G, pos) == [G EXCEPT !.genes[pos].enabled = TRUE]

\* min(d2-(d2-d1)/10, max(d1+(d2-d1)/10, x)) of split_edge.
Max2(a, b) == IF FLess(a, b) THEN b ELSE a
Min2(a, b) == IF FLess(b, a) THEN b ELSE a
\* The clamp of the prototype's split_edge (ConvNEAT.py):
\* min(d2+(d1+d2)/10, max(d1-(d1+d2)/10, x)).
SplitDepthPrototype(d1, d2, x) ==
    Min2(FAdd(d2, FDiv(FAdd(d1, d2), 10)),
         Max2(FSub(d1, FDiv(FAdd(d1, d2), 10)), x))

SplitDepth(d1, d2, x) ==
    Min2(FSub(d2, FDiv(FSub(d2, d1), 10)),
         Max2(FAdd(d1, FDiv(FSub(d2, d1), 10)), x))

\* A lookup that finds no edge id in the cache.
NeverInCache(cache, id) == FALSE

\* edge.id in this_gen_mutations.
InCache(cache, id) == id \in DOMAIN cache

\* Genome.split_edge(this_gen_mutations) with random.choice(enabled_edges)
\* = pos, the normal variate = x and add_after drawing class `after`.
split_edge(G, cache, gen, pos, x, after) ==
    LET edge == G.genes[pos]
        d1 == G.nodes[G.nodes_by_id[edge.id_in]].depth
        d2 == G.nodes[G.nodes_by_id[edge.id_out]].depth
        miss == ~InCache(cache, edge.id)
        cache2 == IF miss
                  THEN (edge.id :> <<gen, gen + 1, gen + 2, SplitDepth(d1, d2, x)>>)
                       @@ cache
                  ELSE cache
        gen2 == IF miss THEN gen + 3 ELSE gen
        id1 == cache2[edge.id][1]
        id2 == cache2[edge.id][2]
        id3 == cache2[edge.id][3]
        depth == cache2[edge.id][4]
        new_node == Node(id1, depth, "none")
        new_edge_1 == GeneCopy(edge, id2, edge.id_in, new_node.id)
        new_edge_2 == GeneAddAfter(edge, after, id3, new_node.id, edge.id_out)
        genes1 == [G.genes EXCEPT ![pos].enabled = FALSE]
    IN  [genome |->
            [nodes |-> Append(G.nodes, new_node),
             genes |-> genes1 \o <<new_edge_1, new_edge_2>>,
             nodes_by_id |-> (id1 :> Len(G.nodes) + 1) @@ G.nodes_by_id,
             genes_by_id |-> (id3 :> Len(G.genes) + 2) @@
                             ((id2 :> Len(G.genes) + 1) @@ G.genes_by_id)],
         cache |-> cache2, gen |-> gen2]

\* One pass of the loop of Genome.add_edge: does it reject the sample?
AddEdgeOrdered(G, pick) ==
    LET a == G.nodes[pick[1]]
        b == G.nodes[pick[2]]
    IN  IF FLess(b.depth, a.depth) THEN <<b, a>> ELSE <<a, b>>

\* The test of the prototype's add_edge (ConvNEAT.py): equal depths pass.
AddEdgeRejectsPrototype(G, pick) ==
    LET n == AddEdgeOrdered(G, pick)
    IN  \E k \in 1..Len(G.genes) :
            G.genes[k].id_in = n[1].id /\ G.genes[k].id_out = n[2].id

\* A test that lets an existing (id_in, id_out) pass.
AddEdgeRejectsDepthOnly(G, pick) ==
    LET n == AddEdgeOrdered(G, pick)
    IN  n[1].depth = n[2].depth

AddEdgeRejects(G, pick) ==
    LET n == AddEdgeOrdered(G, pick)
    IN  \/ n[1].depth = n[2].depth
        \/ \E k \in 1..Len(G.genes) :
              G.genes[k].id_in = n[1].id /\ G.genes[k].id_out = n[2].id

\* The loop of Genome.add_edge: picks[k] is the k-th random.sample(nodes, 2)
\* (two distinct positions of the list), cls the class weighted_choice draws.
RECURSIVE add_edge_loop(_, _, _, _, _)
add_edge_loop(G, gen, picks, k, cls) ==
    IF k > Len(picks) THEN [genome |-> G, gen |-> gen, tries |-> 0]
    ELSE IF AddEdgeRejects(G, picks[k])
         THEN add_edge_loop(G, gen, picks, k + 1, cls)
         ELSE LET n == AddEdgeOrdered(G, picks[k])
                  id == next_id(gen).id
                  new_edge == NewGene(cls, id, n[1].id, n[2].id)
              IN  [genome |-> [G EXCEPT !.genes = Append(@, new_edge),
                                        !.genes_by_id = (id :> Len(G.genes) + 1) @@ @],
                   gen |-> next_id(gen).gen, tries |-> Len(picks) - k + 1]

\* Genome.add_edge: len(picks) = tries = 5; `tries` of the result is the
\* local counter when the loop ends (0: every sample was rejected).
AddEdgeTries == 5

add_edge(G, gen, picks, cls) ==
    IF Len(G.nodes) >= 2 THEN add_edge_loop(G, gen, picks, 1, cls)
    ELSE [genome |-> G, gen |-> gen, tries |-> AddEdgeTries]

\* tries=2 of Genome.mutate_disable_edge.
DisableTries == 2

\* Gene.dissimilarity(other): `self != other` of two objects of a class
\* without __eq__, so False for one object and True for two.  An object is
\* named by the genome that holds it and its place in the list.
GeneDissimilarityAlways(a, b) == 1
GeneDissimilarity(a, b) == IF a # b THEN 1 ELSE 0

\* node.dissimilarity(other) of node.py.
NodeDissimilarity(a, b) == IF a # b THEN 1 ELSE 0

\* limited_growth(x, a, b) of tools.py: 0 at 0, growing with x, bounded.
limited_growth(x, a, b) == IF x < b THEN x ELSE b

\* The trained epochs of a genome: 0 from the constructor unless loaded.
Trained(G) == IF "trained" \in DOMAIN G THEN G.trained ELSE 0

SetMax(S) == CHOOSE x \in S : \A y \in S : y <= x

RECURSIVE SetSum(_, _)
SetSum(f, S) ==
    IF S = {} THEN 0
    ELSE LET x == CHOOSE y \in S : TRUE IN f[x] + SetSum(f, S \ {x})

\* An excess_start without the + 1.
ExcessStartAtMax(ids) == SetMax(ids)
\* excess_start = max(ids_1 | ids_2) + 1.
ExcessStart(ids) == SetMax(ids) + 1

\* Genome.dissimilarity(other) of the genome named n1 with the genome named
\* n2: the terms S, D, E, X and K (as sum and count); T and the weighted sum
\* are left out.  `raised` is the exception the call ends with, if any.
dissimilarity(G1, n1, G2, n2) ==
    LET genes_1 == G1.genes_by_id
        genes_2 == G2.genes_by_id
        ids_1 == DOMAIN genes_1
        ids_2 == DOMAIN genes_2
        nodes_1 == G1.nodes_by_id
        nodes_2 == G2.nodes_by_id
        node_ids == DOMAIN nodes_1 \cap DOMAIN nodes_2
        sym == (ids_1 \ ids_2) \cup (ids_2 \ ids_1)
    IN  IF ids_1 \cup ids_2 = {} THEN [raised |-> "ValueError"]
        ELSE IF node_ids = {} THEN [raised |-> "ZeroDivisionError"]
        ELSE LET excess_start == ExcessStart(ids_1 \cup ids_2)
                 S == SetSum([id \in ids_1 \cap ids_2 |->
                                GeneDissimilarity(<<n1, genes_1[id]>>,
                                                  <<n2, genes_2[id]>>)],
                             ids_1 \cap ids_2)
                 D == Cardinality({id \in sym : id < excess_start})
                 E == Cardinality(sym) - D
                 K == SetSum([id \in node_ids |->
                                NodeDissimilarity(<<n1, nodes_1[id]>>,
                                                  <<n2, nodes_2[id]>>)],
                             node_ids)
                 X == limited_growth(Abs(Trained(G1) - Trained(G2)), 1, 10)
             IN  [raised |-> "none", S |-> S, D |-> D, E |-> E,
                  K |-> <<K, Cardinality(node_ids)>>, X |-> X]

\* sorted(self.nodes, key=lambda x: x.depth): the positions of the list in
\* the order of the sort, which keeps the list order of equal depths.
RECURSIVE SortedByDepth(_, _)
SortedByDepth(nodes, left) ==
    IF left = {} THEN <<>>
    ELSE LET first == CHOOSE p \in left : \A q \in left \ {p} :
                          \/ FLess(nodes[p].depth, nodes[q].depth)
                          \/ nodes[p].depth = nodes[q].depth /\ p < q
         IN  <<first>> \o SortedByDepth(nodes, left \ {first})

\* gene.output_size(in_size) and node.output_size(in_sizes): the size is
\* kept as the term that says what it was computed from.
GeneOutputSize(gene, in_size) == [gene |-> gene.id, of |-> in_size]
NodeOutputSize(node, in_sizes) == [node |-> node.id, merge |-> in_sizes]

\* The loop of Genome.set_sizes over the sorted nodes: `sizes` holds the
\* size of the node at every position of the list (<<>> is None).
RECURSIVE set_sizes_loop(_, _, _, _, _)
set_sizes_loop(G, order, k, sizes, outputs_by_id) ==
    IF k > Len(order) THEN sizes
    ELSE LET node == G.nodes[order[k]]
             in_edges == SelectSeq(G.genes, LAMBDA edge :
                            /\ edge.enabled
                            /\ edge.id_in \in DOMAIN outputs_by_id
                            /\ edge.id_out = node.id)
             in_sizes == [j \in 1..Len(in_edges) |->
                            GeneOutputSize(in_edges[j],
                                           outputs_by_id[in_edges[j].id_in])]
             size == NodeOutputSize(node, in_sizes)
         IN  IF Len(in_edges) > 0
             THEN set_sizes_loop(G, order, k + 1,
                                 [sizes EXCEPT ![order[k]] = size],
                                 (node.id :> size) @@ outputs_by_id)
             ELSE set_sizes_loop(G, order, k + 1, sizes, outputs_by_id)

\* Genome.set_sizes(input_size): the size of the node at every position.
set_sizes(G, input_size) ==
    IF input_size = <<>> THEN [p \in 1..Len(G.nodes) |-> <<>>]
    ELSE set_sizes_loop(G, SortedByDepth(G.nodes, 1..Len(G.nodes)), 1,
                        [p \in 1..Len(G.nodes) |->
                            IF p = G.nodes_by_id[0] THEN input_size ELSE <<>>],
                        (0 :> input_size))

\* The loop of Genome.group_by over the sorted nodes: `grouped` are the
\* closed groups, `group` the open one (positions in the list of nodes), c
\* the ids the enabled genes of the nodes since the last cut lead to.
RECURSIVE group_by_loop(_, _, _, _, _, _)
group_by_loop(G, order, k, grouped, group, c) ==
    IF k > Len(order)
    THEN IF Len(group) > 0 THEN Append(grouped, group) ELSE grouped
    ELSE LET n == G.nodes[order[k]]
             out == {G.genes[j].id_out : j \in {e \in 1..Len(G.genes) :
                        G.genes[e].id_in = n.id /\ G.genes[e].enabled}}
         IN  IF n.id \in c
             THEN group_by_loop(G, order, k + 1, Append(grouped, group),
                                <<order[k]>>, out)
             ELSE group_by_loop(G, order, k + 1, grouped,
                                Append(group, order[k]), c \cup out)

\* Genome.group_by: the nodes by feed-forward layers.
group_by(G) ==
    group_by_loop(G, SortedByDepth(G.nodes, 1..Len(G.nodes)), 1, <<>>, <<>>, {})

\* x_steps = 1 / (len(grouped_nodes) - 1) of Genome.graph_positioning, as
\* the pair of numerator and denominator.
graph_positioning(G) ==
    IF Len(group_by(G)) - 1 = 0 THEN [raised |-> "ZeroDivisionError"]
    ELSE [raised |-> "none", x_steps |-> <<1, Len(group_by(G)) - 1>>]

\* ----------------------------------------------------------- Population
\* Population.__init__: "0-5 is reserved": next_id is called 5 times.
ReservedCalls == 5

RECURSIVE Reserve(_, _)
Reserve(gen, n) == IF n = 0 THEN gen ELSE Reserve(next_id(gen).gen, n - 1)

\* itertools.count() after the reserving calls.
PopulationInitGenerator == Reserve(0, ReservedCalls)

\* ------------------------------------------------- the mutation machine
\* One generation of a population of refactored genomes: every genome asks
\* the population's generator for ids, and every split_edge is handed the
\* same this_gen_mutations.
Init ==
    /\ id_generator = PopulationInitGenerator
    /\ genomes \in [1..NGenomes -> init_genome]
    /\ this_gen_mutations = <<>>
    /\ kgene = <<>> /\ ksize = <<>>
    /\ lgenome = <<>> /\ loaded = <<>>
    /\ population = <<>>

RECURSIVE SumGenes(_)
SumGenes(n) == IF n = 0 THEN 0 ELSE Len(genomes[n].genes) + SumGenes(n - 1)

\* Genes of the whole population.
TotalGenes == SumGenes(NGenomes)

\* The values random.choice can take for `n` draws from the set S.
PickSeqs(S, n) == IF S = {} THEN {<<>>} ELSE [1..n -> S]

MutateDisableEdge(i) ==
    \E picks \in PickSeqs(EnabledEdges(genomes[i].genes), DisableTries) :
        /\ genomes' = [genomes EXCEPT ![i] = mutate_disable_edge(@, picks).genome]
        /\ UNCHANGED <<id_generator, this_gen_mutations, kvars, lvars, pvars>>

EnableEdge(i) ==
    /\ DisabledEdges(genomes[i].genes) # {}
    /\ \E pos \in DisabledEdges(genomes[i].genes) :
        genomes' = [genomes EXCEPT ![i] = enable_edge(@, pos)]
    /\ UNCHANGED <<id_generator, this_gen_mutations, kvars, lvars, pvars>>

\* The values the normal variate around (d1+d2)/2 is drawn from: below the
\* lower clamp, the mean, above the upper clamp.
DepthDraws(d1, d2) == {d1, FDiv(FAdd(d1, d2), 2), d2}

EdgeDepths(G, pos) ==
    <<G.nodes[G.nodes_by_id[G.genes[pos].id_in]].depth,
      G.nodes[G.nodes_by_id[G.genes[pos].id_out]].depth>>

SplitEdge(i) ==
    LET G == genomes[i] IN
    /\ EnabledEdges(G.genes) # {}
    /\ TotalGenes + 2 <= MaxGenes
    /\ \E pos \in EnabledEdges(G.genes) :
        /\ \E x \in DepthDraws(EdgeDepths(G, pos)[1], EdgeDepths(G, pos)[2]),
              after \in AddAfterClasses(G.genes[pos]) :
            LET r == split_edge(G, this_gen_mutations, id_generator, pos, x, after)
            IN  /\ genomes' = [genomes EXCEPT ![i] = r.genome]
                /\ this_gen_mutations' = r.cache
                /\ id_generator' = r.gen
    /\ UNCHANGED <<kvars, lvars, pvars>>

\* random.sample(self.nodes, 2): two distinct positions of the list.
Samples(G) == {p \in (1..Len(G.nodes)) \X (1..Len(G.nodes)) : p[1] # p[2]}

\* A sample the loop rejects, if there is one.
RejectedSample(G) ==
    LET rejected == {q \in Samples(G) : AddEdgeRejects(G, q)}
    IN  IF rejected = {} THEN {} ELSE {CHOOSE q \in rejected : TRUE}

\* The runs of the loop that differ in their outcome: the sample p at every
\* pass, and a rejected sample at every pass but the last, which draws p.
AddEdgePicks(G) ==
    {[j \in 1..AddEdgeTries |-> p] : p \in Samples(G)}
    \cup {[j \in 1..AddEdgeTries |-> IF j < AddEdgeTries THEN r ELSE p] :
            r \in RejectedSample(G),
            p \in {q \in Samples(G) : q[1] < q[2]}}

\* The classes weighted_choice([KernelGene, PoolGene, DenseGene], [1, 1, 1])
\* draws from.
GeneClasses == {"KernelGene", "PoolGene", "DenseGene"}

\* The class of a gene decides nothing in add_edge; the machine draws the
\* one whose add_after has the most outcomes.
AddEdgeClassDraws == {"PoolGene"}

AddEdge(i) ==
    LET G == genomes[i] IN
    /\ TotalGenes + 1 <= MaxGenes
    /\ \E picks \in AddEdgePicks(G), cls \in AddEdgeClassDraws :
        LET r == add_edge(G, id_generator, picks, cls)
        IN  /\ genomes' = [genomes EXCEPT ![i] = r.genome]
            /\ id_generator' = r.gen
    /\ UNCHANGED <<this_gen_mutations, kvars, lvars, pvars>>

Next ==
    \/ \E i \in 1..NGenomes : MutateDisableEdge(i)
    \/ \E i \in 1..NGenomes : EnableEdge(i)
    \/ \E i \in 1..NGenomes : SplitEdge(i)
    \/ \E i \in 1..NGenomes : AddEdge(i)

Spec == Init /\ [][Next]_vars

\* ----------------------------------------------------- the gene machine
\* A KernelGene as its constructor makes it, and the sizes output_size
\* computes for it.
\* An optional argument: <<>> is None, <<v>> is the value v.
None == <<>>

\* Python's `arg or init`: None and 0 both give the default.
Or(arg, init) == IF arg = None \/ arg = <<0>> THEN init ELSE arg[1]

\* The largest depth, width and height given to the constructor.
MaxKernel == 4
\* The largest stride given to the constructor.
MaxStride == 3
\* The largest padding given to the constructor.
MaxPadding == 2
\* The largest width and height of an input size.
MaxIn == 10

\* init_width / init_height: random.randrange(3, 6).
KernelInitSizes == 3..5

\* KernelGene.__init__(id, id_in, id_out, size, stride, padding): the genes
\* the constructor can return.
KernelGene(id, id_in, id_out, size, stride, padding) ==
    {[id |-> id, id_in |-> id_in, id_out |-> id_out, enabled |-> TRUE,
      type |-> "KernelGene", mutate_to |-> InitMutateTo("KernelGene"),
      depth |-> Or(size[1], 1), width |-> Or(size[2], w),
      height |-> Or(size[3], h), stride |-> Or(stride, 1),
      padding |-> IF padding # None THEN padding[1] ELSE 0] :
        w \in KernelInitSizes, h \in KernelInitSizes}

\* An output_size with the usual convolution arithmetic:
\* ((in - kernel + 2 * padding) // stride) + 1.
output_size_conventional(gene, in_size) ==
    <<gene.depth,
      ((in_size[2] - gene.width + 2 * gene.padding) \div gene.stride) + 1,
      ((in_size[3] - gene.height + 2 * gene.padding) \div gene.stride) + 1>>

\* KernelGene.output_size(in_size); // is the floored division \div.
output_size(gene, in_size) ==
    <<gene.depth,
      ((in_size[2] - gene.width + 2 * gene.padding - 1) \div gene.stride) + 1,
      ((in_size[3] - gene.height + 2 * gene.padding - 1) \div gene.stride) + 1>>

\* The largest value a field mutator is followed to.
MaxMutated == 5
\* The largest |size_change| a DenseGene is followed to.
MaxSizeChange == 10

\* random.choice([-2, -1, 1, 2]) of the field mutators.
Nudges == {-2, -1, 1, 2}
Floor1(v) == IF v < 1 THEN 1 ELSE v

\* KernelGene.mutate_depth .. mutate_padding with random.choice = r.
kernel_mutate_depth(g, r) == [g EXCEPT !.depth = Floor1(g.depth + r)]
kernel_mutate_width(g, r) == [g EXCEPT !.width = Floor1(g.width + r)]
kernel_mutate_height(g, r) == [g EXCEPT !.height = Floor1(g.height + r)]
kernel_mutate_size(g, r) ==
    [g EXCEPT !.width = Floor1(g.width + r), !.height = Floor1(g.height + r)]
kernel_mutate_stride(g, r) == [g EXCEPT !.depth = Floor1(g.depth + r)]
kernel_mutate_padding(g, r) == [g EXCEPT !.depth = Floor1(g.depth + r)]

\* KernelGene.copy(id, id_in, id_out).
kernel_copy(g, id, id_in, id_out) ==
    KernelGene(id, id_in, id_out, <<<<g.depth>>, <<g.width>>, <<g.height>>>>,
               <<g.stride>>, <<g.padding>>)

\* PoolGene.__init__(id, id_in, id_out, pooling, size, padding): the genes
\* the constructor can return.
PossiblePooling == {"max", "avg"}
PoolGene(id, id_in, id_out, pooling, size, padding) ==
    {[id |-> id, id_in |-> id_in, id_out |-> id_out, enabled |-> TRUE,
      type |-> "PoolGene", mutate_to |-> InitMutateTo("PoolGene"),
      pooling |-> IF pooling = None THEN p ELSE pooling[1],
      width |-> Or(size[1], w), height |-> Or(size[2], h),
      padding |-> IF padding # None THEN padding[1] ELSE 0] :
        p \in PossiblePooling, w \in KernelInitSizes, h \in KernelInitSizes}

\* PoolGene.mutate_pooling .. mutate_padding.
pool_mutate_pooling(g) ==
    {[g EXCEPT !.pooling = p] : p \in PossiblePooling \ {g.pooling}}
pool_mutate_width(g, r) == [g EXCEPT !.width = Floor1(g.width + r)]
pool_mutate_height(g, r) == [g EXCEPT !.height = Floor1(g.height + r)]
pool_mutate_size(g, r) ==
    [g EXCEPT !.width = Floor1(g.width + r), !.height = Floor1(g.height + r)]
pool_mutate_padding(g, r) == [g EXCEPT !.padding = Floor1(g.padding + r)]

\* PoolGene.copy(id, id_in, id_out).
pool_copy(g, id, id_in, id_out) ==
    PoolGene(id, id_in, id_out, <<g.pooling>>, <<<<g.width>>, <<g.height>>>>,
             <<g.padding>>)

\* DenseGene.__init__(id, id_in, id_out, size_change, activation): the
\* genes the constructor can return.
SizeChanges == (-10..-5) \cup (5..10)
PossibleActivations == {"relu", "tanh"}
DenseGene(id, id_in, id_out, size_change, activation) ==
    {[id |-> id, id_in |-> id_in, id_out |-> id_out, enabled |-> TRUE,
      type |-> "DenseGene", mutate_to |-> InitMutateTo("DenseGene"),
      size_change |-> Or(size_change, s),
      activation |-> IF activation = None THEN a ELSE activation[1]] :
        s \in SizeChanges, a \in PossibleActivations}

\* DenseGene.mutate_size_change with random.choice = r, mutate_activation.
dense_mutate_size_change(g, r) == [g EXCEPT !.size_change = g.size_change + r]
dense_mutate_activation(g) ==
    {[g EXCEPT !.activation = a] : a \in PossibleActivations \ {g.activation}}

\* DenseGene.copy(id, id_in, id_out).
dense_copy(g, id, id_in, id_out) ==
    DenseGene(id, id_in, id_out, <<g.size_change>>, <<g.activation>>)

\* gene.copy(id, id_in, id_out) of the gene's class.
gene_copy(g, id, id_in, id_out) ==
    CASE g.type = "KernelGene" -> kernel_copy(g, id, id_in, id_out)
      [] g.type = "PoolGene" -> pool_copy(g, id, id_in, id_out)
      [] g.type = "DenseGene" -> dense_copy(g, id, id_in, id_out)

\* The arguments the constructor is called with.
KernelSizeArgs ==
    {<<None, None, None>>}
    \cup {<<<<d>>, <<w>>, <<h>>>> : d \in 1..MaxKernel, w \in 1..MaxKernel,
                                   h \in 1..MaxKernel}
StrideArgs == {None} \cup {<<v>> : v \in 1..MaxStride}
PaddingArgs == {None} \cup {<<v>> : v \in 0..MaxPadding}

\* The input sizes [in_depth, in_width, in_height].
InSizes == {<<1, w, h>> : w \in 1..MaxIn, h \in 1..MaxIn}

PoolingArgs == {None} \cup {<<p>> : p \in PossiblePooling}
PoolSizeArgs ==
    {<<None, None>>} \cup {<<<<w>>, <<h>>>> : w \in 1..MaxKernel, h \in 1..MaxKernel}
SizeChangeArgs == {None} \cup {<<s>> : s \in SizeChanges}
ActivationArgs == {None} \cup {<<a>> : a \in PossibleActivations}

InitKernel ==
    /\ kgene \in UNION {KernelGene(3, 0, 1, size, stride, padding) :
                          size \in KernelSizeArgs, stride \in StrideArgs,
                          padding \in PaddingArgs}
                \cup UNION {PoolGene(3, 0, 1, pooling, size, padding) :
                          pooling \in PoolingArgs, size \in PoolSizeArgs,
                          padding \in PaddingArgs}
                \cup UNION {DenseGene(4, 1, 2, size_change, activation) :
                          size_change \in SizeChangeArgs,
                          activation \in ActivationArgs}
    /\ ksize = <<>>
    /\ genomes = <<>> /\ id_generator = 0 /\ this_gen_mutations = <<>>
    /\ lgenome = <<>> /\ loaded = <<>>
    /\ population = <<>>

OutputSize ==
    /\ kgene.type = "KernelGene"
    /\ \E in_size \in InSizes :
        ksize' = [in_size |-> in_size, out |-> output_size(kgene, in_size)]
    /\ UNCHANGED <<kgene, mvars, lvars, pvars>>

\* A field mutator has run on the gene and left it g; the call returns no
\* size.
Mutated(type, g) ==
    /\ kgene.type = type
    /\ kgene' = g
    /\ ksize' = <<>>
    /\ UNCHANGED <<mvars, lvars, pvars>>

KernelFollowed(g) ==
    g.depth <= MaxMutated /\ g.width <= MaxMutated /\ g.height <= MaxMutated

KernelMutateDepth ==
    /\ kgene.type = "KernelGene"
    /\ \E r \in Nudges : /\ KernelFollowed(kernel_mutate_depth(kgene, r))
                         /\ Mutated("KernelGene", kernel_mutate_depth(kgene, r))
KernelMutateWidth ==
    /\ kgene.type = "KernelGene"
    /\ \E r \in Nudges : /\ KernelFollowed(kernel_mutate_width(kgene, r))
                         /\ Mutated("KernelGene", kernel_mutate_width(kgene, r))
KernelMutateHeight ==
    /\ kgene.type = "KernelGene"
    /\ \E r \in Nudges : /\ KernelFollowed(kernel_mutate_height(kgene, r))
                         /\ Mutated("KernelGene", kernel_mutate_height(kgene, r))
KernelMutateSize ==
    /\ kgene.type = "KernelGene"
    /\ \E r \in Nudges : /\ KernelFollowed(kernel_mutate_size(kgene, r))
                         /\ Mutated("KernelGene", kernel_mutate_size(kgene, r))
KernelMutateStride ==
    /\ kgene.type = "KernelGene"
    /\ \E r \in Nudges : /\ KernelFollowed(kernel_mutate_stride(kgene, r))
                         /\ Mutated("KernelGene", kernel_mutate_stride(kgene, r))
KernelMutatePadding ==
    /\ kgene.type = "KernelGene"
    /\ \E r \in Nudges : /\ KernelFollowed(kernel_mutate_padding(kgene, r))
                         /\ Mutated("KernelGene", kernel_mutate_padding(kgene, r))

PoolFollowed(g) ==
    g.width <= MaxMutated /\ g.height <= MaxMutated /\ g.padding <= MaxMutated

PoolMutatePooling ==
    /\ kgene.type = "PoolGene"
    /\ \E g \in pool_mutate_pooling(kgene) : Mutated("PoolGene", g)
PoolMutateWidth ==
    /\ kgene.type = "PoolGene"
    /\ \E r \in Nudges : /\ PoolFollowed(pool_mutate_width(kgene, r))
                         /\ Mutated("PoolGene", pool_mutate_width(kgene, r))
PoolMutateHeight ==
    /\ kgene.type = "PoolGene"
    /\ \E r \in Nudges : /\ PoolFollowed(pool_mutate_height(kgene, r))
                         /\ Mutated("PoolGene", pool_mutate_height(kgene, r))
PoolMutateSize ==
    /\ kgene.type = "PoolGene"
    /\ \E r \in Nudges : /\ PoolFollowed(pool_mutate_size(kgene, r))
                         /\ Mutated("PoolGene", pool_mutate_size(kgene, r))
PoolMutatePadding ==
    /\ kgene.type = "PoolGene"
    /\ \E r \in Nudges : /\ PoolFollowed(pool_mutate_padding(kgene, r))
                         /\ Mutated("PoolGene", pool_mutate_padding(kgene, r))

DenseMutateSizeChange ==
    /\ kgene.type = "DenseGene"
    /\ \E r \in SizeChanges :
           /\ Abs(dense_mutate_size_change(kgene, r).size_change) <= MaxSizeChange
           /\ Mutated("DenseGene", dense_mutate_size_change(kgene, r))
DenseMutateActivation ==
    /\ kgene.type = "DenseGene"
    /\ \E g \in dense_mutate_activation(kgene) : Mutated("DenseGene", g)

NextKernel ==
    \/ OutputSize
    \/ KernelMutateDepth
    \/ KernelMutateWidth
    \/ KernelMutateHeight
    \/ KernelMutateSize
    \/ KernelMutateStride
    \/ KernelMutatePadding
    \/ PoolMutatePooling
    \/ PoolMutateWidth
    \/ PoolMutateHeight
    \/ PoolMutateSize
    \/ PoolMutatePadding
    \/ DenseMutateSizeChange
    \/ DenseMutateActivation

SpecKernel == InitKernel /\ [][NextKernel]_vars

\* ------------------------------------------------ the checkpoint machine
\* One refactored genome and the saves Genome.load is called with.
\* acc and net_parameters are None or a value, loss is inf or a value.
NoneValue == "None"
Infinity == "inf"

\* The largest value of trained, no_change and reward of a save.
MaxCount == 1

\* The optimizer classes; init_optimizer draws one and constructs it.
OptimizerClasses == {"SGDGene", "ADAMGene"}
init_optimizer == {[class |-> c, state |-> "init"] : c \in OptimizerClasses}

\* optimizer.save() and cls().load(state) of optimizer.py.
OptimizerSave(o) == <<o.class, o.state>>
OptimizerLoad(saved) == [class |-> saved[1], state |-> saved[2]]

\* node.save() and Node(id, depth).load(state) of node.py.
NodeSave(n) == <<"Node", n.id, n.depth, [role |-> n.role]>>
NodeLoad(saved) == [Node(saved[2], saved[3], "none") EXCEPT !.role = saved[4].role]

\* gene.save() and cls(id, id_in, id_out).load(state) of gene.py.
GeneSave(g) == <<g.type, g.id, g.id_in, g.id_out, [enabled |-> g.enabled]>>
GeneLoad(saved) ==
    [NewGene(saved[1], saved[2], saved[3], saved[4])
        EXCEPT !.enabled = saved[5].enabled]

\* Genome.__init__(population, optimizer, nodes_and_genes, trained, reward,
\* acc, net_parameters, loss, no_change).
GenomeInit(optimizer, nodes_and_genes, trained, reward, acc, net_parameters, loss, no_change) ==
    [optimizer |-> optimizer,
     nodes |-> nodes_and_genes[1], genes |-> nodes_and_genes[2],
     nodes_by_id |-> dicts_by_id(nodes_and_genes[1], nodes_and_genes[2]).nodes_by_id,
     genes_by_id |-> dicts_by_id(nodes_and_genes[1], nodes_and_genes[2]).genes_by_id,
     net_parameters |-> net_parameters, acc |-> acc, loss |-> loss,
     trained |-> trained, no_change |-> no_change, reward |-> reward]

\* Genome.save(parameters).
save(G, parameters) ==
    <<OptimizerSave(G.optimizer),
      [k \in 1..Len(G.nodes) |-> NodeSave(G.nodes[k])],
      [k \in 1..Len(G.genes) |-> GeneSave(G.genes[k])],
      G.acc, G.loss, G.trained, G.no_change, G.reward>>
    \o (IF parameters THEN <<G.net_parameters>> ELSE <<>>)

\* A load whose legacy branch puts the bookkeeping back to the defaults.
load_reset(G, saved, load_params) ==
    LET params == IF Len(saved) = 8 THEN NoneValue ELSE saved[Len(saved)]
        nodes == [k \in 1..Len(saved[2]) |-> NodeLoad(saved[2][k])]
        genes == [k \in 1..Len(saved[3]) |-> GeneLoad(saved[3][k])]
    IN  [optimizer |-> OptimizerLoad(saved[1]),
         nodes |-> nodes, genes |-> genes,
         nodes_by_id |-> dicts_by_id(nodes, genes).nodes_by_id,
         genes_by_id |-> dicts_by_id(nodes, genes).genes_by_id,
         net_parameters |-> IF load_params THEN params ELSE NoneValue,
         acc |-> saved[4],
         loss |-> IF Len(saved) = 5 THEN Infinity ELSE saved[5],
         trained |-> IF Len(saved) = 5 THEN 0 ELSE saved[6],
         no_change |-> IF Len(saved) = 5 THEN 0 ELSE saved[7],
         reward |-> IF Len(saved) = 5 THEN 0 ELSE saved[8]]

\* Genome.load(save, load_params) for a save of 5, 9 or 8 fields.
load(G, saved, load_params) ==
    LET legacy == Len(saved) = 5
        params == IF legacy THEN saved[5]
                  ELSE IF Len(saved) = 9 THEN saved[9]
                  ELSE NoneValue
        nodes == [k \in 1..Len(saved[2]) |-> NodeLoad(saved[2][k])]
        genes == [k \in 1..Len(saved[3]) |-> GeneLoad(saved[3][k])]
    IN  [optimizer |-> OptimizerLoad(saved[1]),
         nodes |-> nodes, genes |-> genes,
         nodes_by_id |-> dicts_by_id(nodes, genes).nodes_by_id,
         genes_by_id |-> dicts_by_id(nodes, genes).genes_by_id,
         net_parameters |-> IF ~load_params /\ params # NoneValue
                            THEN NoneValue ELSE params,
         acc |-> saved[4],
         loss |-> IF legacy THEN G.loss ELSE saved[5],
         trained |-> IF legacy THEN G.trained ELSE saved[6],
         no_change |-> IF legacy THEN G.no_change ELSE saved[7],
         reward |-> IF legacy THEN G.reward ELSE saved[8]]

\* The genomes whose saves are loaded: a fresh structure or one whose gene 3
\* was split, with any bookkeeping.
AccValues == {NoneValue, "0.9"}
LossValues == {Infinity, "0.5"}
ParameterValues == {NoneValue, "weights"}

SavedStructures ==
    {<<G.nodes, G.genes>> : G \in init_genome}
    \cup {<<r.nodes, r.genes>> :
            r \in {split_edge(G, <<>>, PopulationInitGenerator, 1, FDiv(FromInt(1), 2),
                              "KernelGene").genome : G \in init_genome}}

\* The optimizer of a saved genome: one that mutate_optimizer has changed.
SavedOptimizers == {[class |-> "SGDGene", state |-> "mutated"]}

SavedGenomes ==
    {GenomeInit(o, st, trained, reward, acc, params, loss, no_change) :
        o \in SavedOptimizers, st \in SavedStructures, trained \in 0..MaxCount,
        reward \in 0..MaxCount, acc \in AccValues, params \in ParameterValues,
        loss \in LossValues, no_change \in 0..MaxCount}

\* The three formats: full with and without parameters, and the earliest
\* one, [optimizer, nodes, genes, acc, net_parameters].
Saves9 == {save(G, TRUE) : G \in SavedGenomes}
Saves8 == {save(G, FALSE) : G \in SavedGenomes}
Saves5 == {<<s[1], s[2], s[3], s[4], s[9]>> : s \in Saves9}

\* Genome(population): every argument at its default.
InitLoad ==
    /\ lgenome \in {GenomeInit(o, <<G.nodes, G.genes>>, 0, 0, NoneValue,
                               NoneValue, Infinity, 0) :
                        o \in init_optimizer, G \in init_genome}
    /\ loaded = <<>>
    /\ genomes = <<>> /\ id_generator = 0 /\ this_gen_mutations = <<>>
    /\ kgene = <<>> /\ ksize = <<>>
    /\ population = <<>>

\* genome.load(save, load_params) with a save of the set `saves`; `loaded`
\* keeps the length of the save and the flag of the last call.
Load(saves) ==
    /\ \E saved \in saves, load_params \in BOOLEAN :
        /\ lgenome' = load(lgenome, saved, load_params)
        /\ loaded' = [fields |-> Len(saved), load_params |-> load_params]
    /\ UNCHANGED <<mvars, kvars, pvars>>

NextLoad ==
    \/ Load(Saves5)
    \/ Load(Saves9)
    \/ Load(Saves8)

SpecLoad == InitLoad /\ [][NextLoad]_vars

\* ------------------------------------------------- the evolution machine
\* The prototype Population of ConvNEAT.py and its evolve.  The merge of a
\* node and the learning rate of a genome are not part of the model:
\* mutate_nodes and mutate_log_learning_rate change nothing here.
\* Genomes of the population (the n of Population.__init__).
PopSize == 4
\* The scores evaluate_genome returns: 0..MaxScore.
MaxScore == 1
\* Calls of evolve.
MaxGenerations == 1

\* Genome.__init__ of the prototype with init_genome: both genes are
\* abstract Genes.  uid tells the objects apart.  A map entry of 0 is an
\* object that is no longer in the list.
ProtoGenome(uid) ==
    [uid |-> uid,
     nodes |-> <<Node(0, FromInt(0), "none"), Node(1, FromInt(1), "flatten"),
                 Node(2, FromInt(2), "none")>>,
     genes |-> <<Gene(3, 0, 1, {"KernelGene"}), Gene(4, 1, 2, {"DenseGene"})>>,
     nodes_by_id |-> <<>> @@ (0 :> 1) @@ (1 :> 2) @@ (2 :> 3),
     genes_by_id |-> (3 :> 1) @@ (4 :> 2)]

\* A call that returned / that raised AttributeError.
Returned(G, gen) == [genome |-> G, gen |-> gen, raised |-> FALSE]
Raised(G, gen) == [genome |-> G, gen |-> gen, raised |-> TRUE]

\* A None in the list: gene.enabled, e.id_in and gene.mutate_random raise.
HasNone(genes) == \E k \in 1..Len(genes) : genes[k].type = "None"

\* Genome.mutate_genes(p) of the prototype: mask[i] is rand() < p.
RECURSIVE proto_mutate_genes_loop(_, _, _, _)
proto_mutate_genes_loop(G, gen, mask, i) ==
    IF i > Len(G.genes) THEN {Returned(G, gen)}
    ELSE IF ~mask[i] THEN proto_mutate_genes_loop(G, gen, mask, i + 1)
    ELSE IF G.genes[i].type = "None" THEN {Raised(G, gen)}
    ELSE UNION {proto_mutate_genes_loop(
                    [G EXCEPT !.genes[i] = g,
                              !.genes_by_id =
                                  [id \in DOMAIN @ |->
                                      IF id = G.genes[i].id /\ g # G.genes[i]
                                      THEN 0 ELSE @[id]]],
                    gen, mask, i + 1) :
                g \in GeneMutateRandom(G.genes[i])}

proto_mutate_genes(G, gen) ==
    UNION {proto_mutate_genes_loop(G, gen, mask, 1) :
            mask \in [1..Len(G.genes) -> BOOLEAN]}

\* Genome.disable_edge of the prototype.
proto_disable_edge(G, gen) ==
    IF HasNone(G.genes) THEN {Raised(G, gen)}
    ELSE IF EnabledEdges(G.genes) = {} THEN {Returned(G, gen)}
    ELSE {Returned([G EXCEPT !.genes[pos].enabled = FALSE], gen) :
            pos \in EnabledEdges(G.genes)}

\* Genome.enable_edge of the prototype.
proto_enable_edge(G, gen) ==
    IF HasNone(G.genes) THEN {Raised(G, gen)}
    ELSE IF DisabledEdges(G.genes) = {} THEN {Returned(G, gen)}
    ELSE {Returned([G EXCEPT !.genes[pos].enabled = TRUE], gen) :
            pos \in DisabledEdges(G.genes)}

\* The variate of the prototype's split_edge has deviation 0.0001: the mean.
ProtoDepthDraws(d1, d2) == {FDiv(FAdd(d1, d2), 2)}

\* Genome.split_edge of the prototype with random.choice(enabled) = pos, the
\* variate = x and add_after drawing class `after`.
proto_split(G, gen, pos, x, after) ==
    LET edge == G.genes[pos]
        id1 == gen
        id2 == gen + 1
        id3 == gen + 2
        d == EdgeDepths(G, pos)
        new_node == Node(id1, SplitDepthPrototype(d[1], d[2], x), "none")
        new_edge_1 == GeneCopy(edge, id2, edge.id_in, new_node.id)
        new_edge_2 == GeneAddAfter(edge, after, id3, new_node.id, edge.id_out)
        genes1 == [G.genes EXCEPT ![pos].enabled = FALSE]
    IN  Returned([uid |-> G.uid,
                  nodes |-> Append(G.nodes, new_node),
                  genes |-> genes1 \o <<new_edge_1, new_edge_2>>,
                  nodes_by_id |-> (id1 :> Len(G.nodes) + 1) @@ G.nodes_by_id,
                  genes_by_id |-> (id3 :> Len(G.genes) + 2) @@
                                  ((id2 :> Len(G.genes) + 1) @@ G.genes_by_id)],
                 gen + 3)

proto_split_edge(G, gen) ==
    IF HasNone(G.genes) THEN {Raised(G, gen)}
    ELSE IF EnabledEdges(G.genes) = {} THEN {Returned(G, gen)}
    ELSE UNION {{proto_split(G, gen, pos, x, after) :
                    x \in ProtoDepthDraws(EdgeDepths(G, pos)[1], EdgeDepths(G, pos)[2]),
                    after \in AddAfterClasses(G.genes[pos])} :
                pos \in EnabledEdges(G.genes)}

\* The loop of the prototype's add_edge.
RECURSIVE proto_add_edge_loop(_, _, _, _, _)
proto_add_edge_loop(G, gen, picks, k, cls) ==
    IF k > Len(picks) THEN Returned(G, gen)
    ELSE IF AddEdgeRejectsPrototype(G, picks[k])
         THEN proto_add_edge_loop(G, gen, picks, k + 1, cls)
         ELSE LET n == AddEdgeOrdered(G, picks[k])
                  id == next_id(gen).id
                  new_edge == NewGene(cls, id, n[1].id, n[2].id)
              IN  Returned([G EXCEPT !.genes = Append(@, new_edge),
                                     !.genes_by_id = (id :> Len(G.genes) + 1) @@ @],
                           next_id(gen).gen)

\* The samples of the loop: a run that draws a rejected sample before the
\* sample p ends like the run that draws p at every pass.
ProtoAddEdgePicks(G) == {[j \in 1..AddEdgeTries |-> p] : p \in Samples(G)}

\* Genome.add_edge of the prototype.
proto_add_edge(G, gen) ==
    IF Len(G.nodes) < 2 THEN {Returned(G, gen)}
    ELSE IF HasNone(G.genes) THEN {Raised(G, gen)}
    ELSE {proto_add_edge_loop(G, gen, picks, 1, cls) :
            picks \in ProtoAddEdgePicks(G), cls \in AddEdgeClassDraws}

\* The structural mutations of the prototype's mutate_random, by name.
Mutate(name, G, gen) ==
    CASE name = "disable_edge" -> proto_disable_edge(G, gen)
      [] name = "enable_edge" -> proto_enable_edge(G, gen)
      [] name = "split_edge" -> proto_split_edge(G, gen)
      [] name = "add_edge" -> proto_add_edge(G, gen)

\* `for mutate in mutations: mutate()`: the next mutation runs on every
\* result that did not raise; a mutation of chance < 1 may also be left out
\* of `mutations`.
Bind(S, name) ==
    UNION {IF r.raised THEN {r} ELSE Mutate(name, r.genome, r.gen) : r \in S}

Optional(S, name) == S \cup Bind(S, name)

\* Genome.mutate_random of the prototype: mutate_genes and mutate_nodes have
\* chance 1; disable_edge, enable_edge, split_edge and add_edge follow in
\* this order, each drawn or not.
proto_mutate_random(G, gen) ==
    Optional(Optional(Optional(Optional(proto_mutate_genes(G, gen),
        "disable_edge"), "enable_edge"), "split_edge"), "add_edge")

\* scores.sort(key=itemgetter(0)): the positions in ascending order of
\* score, equal scores in their old order.
SortByScore(score) ==
    LET n == Len(score)
        Before(q, p) == score[q] < score[p] \/ (score[q] = score[p] /\ q < p)
    IN  [k \in 1..n |-> CHOOSE p \in 1..n :
                            Cardinality({q \in 1..n : Before(q, p)}) = k - 1]

\* Population(n, evaluate_genome).  pc and i are the place of evolve:
\* "idle" outside a call, "mutate" before the mutate_random of position i
\* (positions count from 1).  evolved counts the calls that have ended, and
\* raised tells that the last one ended in an AttributeError.  evaluated[k]
\* counts the calls of evaluate_genome on the k-th genome, scores and ranked
\* are the sorted scores and genomes, returned the positions whose
\* mutate_random returned.
InitPop ==
    /\ population = [genomes |-> [k \in 1..PopSize |-> ProtoGenome(k)],
                     id_generator |-> PopulationInitGenerator,
                     next_uid |-> PopSize + 1,
                     pc |-> "idle", i |-> 0,
                     evolved |-> 0, raised |-> FALSE,
                     evaluated |-> <<>>, scores |-> <<>>, ranked |-> <<>>,
                     returned |-> {}]
    /\ genomes = <<>> /\ id_generator = 0 /\ this_gen_mutations = <<>>
    /\ kgene = <<>> /\ ksize = <<>>
    /\ lgenome = <<>> /\ loaded = <<>>

\* range(n // 4) and range(n // 4, n * 3 // 4), counted from 1.
LowestQuarter(n) == 1..(n \div 4)
MiddleHalf(n) == (n \div 4 + 1)..((n * 3) \div 4)

\* Population.evolve up to the loop that mutates: every genome is scored,
\* the list is sorted by score and its lowest quarter replaced by new
\* genomes.
EvolveRank ==
    /\ population.pc = "idle"
    /\ population.evolved < MaxGenerations
    /\ ~population.raised
    /\ \E score \in [1..Len(population.genomes) -> 0..MaxScore] :
        LET n == Len(population.genomes)
            order == SortByScore(score)
            sorted == [k \in 1..n |-> population.genomes[order[k]]]
            lo == n \div 4
            replaced == [k \in LowestQuarter(n) |->
                            ProtoGenome(population.next_uid + k - 1)]
                        \o SubSeq(sorted, lo + 1, n)
        IN  population' = [population EXCEPT
                !.genomes = replaced,
                !.next_uid = @ + lo,
                !.evaluated = [k \in 1..n |-> 1],
                !.scores = [k \in 1..n |-> score[order[k]]],
                !.ranked = sorted \o <<>>,
                !.returned = {},
                !.pc = IF MiddleHalf(n) = {} THEN "idle" ELSE "mutate",
                !.i = lo + 1,
                !.evolved = IF MiddleHalf(n) = {} THEN @ + 1 ELSE @]
    /\ UNCHANGED <<mvars, kvars, lvars>>

\* One pass of `for i in range(n // 4, n * 3 // 4):
\* self.genomes[i].mutate_random()`: the call returns and the loop goes on
\* or ends, or the call raises and ends evolve.
EvolveMutate ==
    /\ population.pc = "mutate"
    /\ LET i == population.i
           last == i + 1 \notin MiddleHalf(Len(population.genomes))
       IN  \E o \in proto_mutate_random(population.genomes[i],
                                        population.id_generator) :
            population' = [population EXCEPT
                !.genomes = [@ EXCEPT ![i] = o.genome],
                !.id_generator = o.gen,
                !.raised = o.raised,
                !.returned = IF o.raised THEN @ ELSE @ \cup {i},
                !.i = i + 1,
                !.pc = IF o.raised \/ last THEN "idle" ELSE "mutate",
                !.evolved = IF o.raised \/ last THEN @ + 1 ELSE @]
    /\ UNCHANGED <<mvars, kvars, lvars>>

NextPop ==
    \/ EvolveRank
    \/ EvolveMutate

SpecPop == InitPop /\ [][NextPop]_vars

\* ------------------------------------------------------------ claims
\* Nodes reached from the set S along enabled genes.
RECURSIVE Closure(_, _)
Closure(genes, S) ==
    LET T == S \cup {genes[k].id_out : k \in {j \in 1..Len(genes) :
                        genes[j].enabled /\ genes[j].id_in \in S}}
    IN  IF T = S THEN S ELSE Closure(genes, T)

NodeIds(G) == {G.nodes[k].id : k \in 1..Len(G.nodes)}
GeneIds(G) == {G.genes[k].id : k \in 1..Len(G.genes)}

\* C1: after any sequence of mutate_disable_edge, enable_edge, split_edge and
\* add_edge on fresh genomes, node 2 is reachable from node 0 along enabled
\* genes, in every genome.
C1_OutputReachable ==
    \A i \in 1..NGenomes : 2 \in Closure(genomes[i].genes, {0})

\* mutate_disable_edge has disabled a gene that no split_edge disabled.
C1_Witness ==
    \E i \in 1..NGenomes : \E k \in 1..Len(genomes[i].genes) :
        /\ ~genomes[i].genes[k].enabled
        /\ genomes[i].genes[k].id \notin DOMAIN this_gen_mutations
        /\ 2 \in Closure(genomes[i].genes, {0})

\* C2: every gene, enabled or not, has both endpoints among the nodes, and
\* every node of its source id is strictly shallower than every node of its
\* target id.
C2_FeedForward ==
    \A i \in 1..NGenomes : \A k \in 1..Len(genomes[i].genes) :
        LET G == genomes[i]
            e == G.genes[k]
        IN  /\ e.id_in \in NodeIds(G)
            /\ e.id_out \in NodeIds(G)
            /\ \A a, b \in 1..Len(G.nodes) :
                  G.nodes[a].id = e.id_in /\ G.nodes[b].id = e.id_out
                      => FLess(G.nodes[a].depth, G.nodes[b].depth)

\* add_edge has made a gene that starts or ends at a node split_edge made.
C2_Witness ==
    \E i \in 1..NGenomes : \E k \in 1..Len(genomes[i].genes) :
        LET e == genomes[i].genes[k]
        IN  /\ e.id > 4
            /\ \A c \in DOMAIN this_gen_mutations :
                  e.id # this_gen_mutations[c][2] /\ e.id # this_gen_mutations[c][3]
            /\ \E c \in DOMAIN this_gen_mutations :
                  this_gen_mutations[c][1] \in {e.id_in, e.id_out}

\* C3: split_edge on an enabled gene e adds exactly one node n and exactly
\* two genes, e.id_in -> n and n -> e.id_out, with depth(e.id_in) < depth(n)
\* < depth(e.id_out); e stays in the list, disabled; nothing else changes.
C3_SplitEdge ==
    \A i \in 1..NGenomes : \A pos \in EnabledEdges(genomes[i].genes) :
        LET G == genomes[i]
            e == G.genes[pos]
            d == EdgeDepths(G, pos)
        IN  \A x \in DepthDraws(d[1], d[2]), after \in AddAfterClasses(e) :
                LET r == split_edge(G, this_gen_mutations, id_generator,
                                    pos, x, after).genome
                    n == r.nodes[Len(r.nodes)]
                    m == Len(G.genes)
                IN  /\ Len(r.nodes) = Len(G.nodes) + 1
                    /\ SubSeq(r.nodes, 1, Len(G.nodes)) = G.nodes
                    /\ Len(r.genes) = m + 2
                    /\ r.genes[m + 1].id_in = e.id_in
                    /\ r.genes[m + 1].id_out = n.id
                    /\ r.genes[m + 2].id_in = n.id
                    /\ r.genes[m + 2].id_out = e.id_out
                    /\ FLess(d[1], n.depth) /\ FLess(n.depth, d[2])
                    /\ r.genes[pos] = [e EXCEPT !.enabled = FALSE]
                    /\ \A k \in 1..m : k # pos => r.genes[k] = G.genes[k]

\* A split has run: the split gene is disabled and its node and both new
\* genes are in the genome.
C3_Witness ==
    \E i \in 1..NGenomes : \E k \in 1..Len(genomes[i].genes) :
        LET G == genomes[i]
            e == G.genes[k]
        IN  /\ ~e.enabled
            /\ e.id \in DOMAIN this_gen_mutations
            /\ this_gen_mutations[e.id][1] \in NodeIds(G)
            /\ this_gen_mutations[e.id][2] \in GeneIds(G)
            /\ this_gen_mutations[e.id][3] \in GeneIds(G)

\* C4: a split of an edge id that is a key of this_gen_mutations takes the
\* recorded ids and depth and requests no id; a split of any other edge id
\* requests exactly 3 ids and records them with the depth under that id.
C4_InnovationReuse ==
    \A i \in 1..NGenomes : \A pos \in EnabledEdges(genomes[i].genes) :
        LET G == genomes[i]
            e == G.genes[pos]
            d == EdgeDepths(G, pos)
        IN  \A x \in DepthDraws(d[1], d[2]), after \in AddAfterClasses(e) :
                LET r == split_edge(G, this_gen_mutations, id_generator,
                                    pos, x, after)
                    n == r.genome.nodes[Len(r.genome.nodes)]
                    g1 == r.genome.genes[Len(G.genes) + 1]
                    g2 == r.genome.genes[Len(G.genes) + 2]
                IN  IF e.id \in DOMAIN this_gen_mutations
                    THEN /\ r.gen = id_generator
                         /\ r.cache = this_gen_mutations
                         /\ <<n.id, g1.id, g2.id, n.depth>>
                                = this_gen_mutations[e.id]
                    ELSE /\ r.gen = id_generator + 3
                         /\ DOMAIN r.cache = DOMAIN this_gen_mutations \cup {e.id}
                         /\ \A c \in DOMAIN this_gen_mutations :
                               r.cache[c] = this_gen_mutations[c]
                         /\ r.cache[e.id] = <<id_generator, id_generator + 1,
                                               id_generator + 2, n.depth>>
                         /\ <<n.id, g1.id, g2.id>> = <<id_generator,
                                id_generator + 1, id_generator + 2>>

\* Two genomes have split the same edge and hold the same new gene ids, and
\* the generator has handed out the ids of one split only.
C4_Witness ==
    /\ id_generator = PopulationInitGenerator + 3
    /\ \E i, j \in 1..NGenomes : \E c \in DOMAIN this_gen_mutations :
        /\ i # j
        /\ this_gen_mutations[c][2] \in GeneIds(genomes[i]) \cap GeneIds(genomes[j])
        /\ this_gen_mutations[c][3] \in GeneIds(genomes[i]) \cap GeneIds(genomes[j])

\* C5: add_edge adds at most one gene; the gene it adds repeats the
\* (id_in, id_out) of no gene of the list and goes from a strictly shallower
\* node to a deeper one; a call that rejects all 5 samples adds no gene and
\* requests no id.
C5_AddEdge ==
    \A i \in 1..NGenomes :
        LET G == genomes[i]
            m == Len(G.genes)
        IN  \A picks \in AddEdgePicks(G), cls \in GeneClasses :
                LET r == add_edge(G, id_generator, picks, cls)
                    new == r.genome.genes[m + 1]
                IN  /\ r.genome.nodes = G.nodes
                    /\ SubSeq(r.genome.genes, 1, m) = G.genes
                    /\ Len(r.genome.genes) \in {m, m + 1}
                    /\ Len(r.genome.genes) = m + 1 =>
                        /\ \A k \in 1..m : <<G.genes[k].id_in, G.genes[k].id_out>>
                                              # <<new.id_in, new.id_out>>
                        /\ \A a, b \in 1..Len(G.nodes) :
                              G.nodes[a].id = new.id_in /\ G.nodes[b].id = new.id_out
                                  => FLess(G.nodes[a].depth, G.nodes[b].depth)
                        /\ new.id = id_generator
                        /\ r.gen = id_generator + 1
                    /\ (\A j \in 1..AddEdgeTries : AddEdgeRejects(G, picks[j])) =>
                        /\ r.genome = G
                        /\ r.gen = id_generator

\* add_edge has added a gene to a genome in which every sample is now
\* rejected, so that every further call gives up.
C5_Witness ==
    \E i \in 1..NGenomes :
        /\ \E k \in 1..Len(genomes[i].genes) :
              /\ genomes[i].genes[k].id > 4
              /\ \A c \in DOMAIN this_gen_mutations :
                    /\ genomes[i].genes[k].id # this_gen_mutations[c][2]
                    /\ genomes[i].genes[k].id # this_gen_mutations[c][3]
        /\ \A p \in Samples(genomes[i]) : AddEdgeRejects(genomes[i], p)

\* C6: the population reserves ids 0 through 5, so the generator never holds
\* or hands out an id below 6: no node or gene made by a mutation operator
\* has id 5.
C6_FirstIdIsSix ==
    /\ id_generator >= 6
    /\ \A i \in 1..NGenomes :
        /\ \A k \in 1..Len(genomes[i].genes) :
              genomes[i].genes[k].id \in {3, 4} \/ genomes[i].genes[k].id >= 6
        /\ \A k \in 1..Len(genomes[i].nodes) :
              genomes[i].nodes[k].id \in {0, 1, 2} \/ genomes[i].nodes[k].id >= 6

FloorIs(q, a, b) == q * b <= a /\ a < (q + 1) * b

\* The gene of the examples: depth 1, width 3, height 3.
ExampleKernel(stride, padding) ==
    /\ ksize # <<>>
    /\ ksize.in_size = <<1, 10, 10>>
    /\ <<kgene.depth, kgene.width, kgene.height>> = <<1, 3, 3>>
    /\ kgene.stride = stride /\ kgene.padding = padding

\* out_depth is the gene's depth, out_width is 1 + the floor of
\* (in_width - width + 2*padding - 1) / stride, and the same for height.
OutputSizeFormula ==
    ksize # <<>> =>
        /\ ksize.out[1] = kgene.depth
        /\ FloorIs(ksize.out[2] - 1,
                   ksize.in_size[2] - kgene.width + 2 * kgene.padding - 1,
                   kgene.stride)
        /\ FloorIs(ksize.out[3] - 1,
                   ksize.in_size[3] - kgene.height + 2 * kgene.padding - 1,
                   kgene.stride)

\* C9 as the code has it: output_size([1,10,10]) of a 3x3 KernelGene with
\* stride 1 and padding 0 is [1,7,7], with stride 2 and padding 1 its width
\* and height are 5, and every result follows the formula with the floored
\* division.
C9_OutputSize ==
    /\ OutputSizeFormula
    /\ ExampleKernel(1, 0) => ksize.out = <<1, 7, 7>>
    /\ ExampleKernel(2, 1) => ksize.out[2] = 5 /\ ksize.out[3] = 5

\* output_size([1,10,10]) was computed for the 3x3 gene of stride 1 and
\* padding 0.
C9_Witness == ExampleKernel(1, 0) /\ ksize.out[2] = 7

\* C9 as stated: the first example yields [1,6,6].
C9_OutputSizeAsStated ==
    /\ OutputSizeFormula
    /\ ExampleKernel(1, 0) => ksize.out = <<1, 6, 6>>
    /\ ExampleKernel(2, 1) => ksize.out[2] = 5 /\ ksize.out[3] = 5

\* What load takes from a 5-field save: optimizer, nodes, genes and acc, the
\* maps rebuilt from the loaded lists.
Load5FromSave(r, saved) ==
    /\ <<r.optimizer.class, r.optimizer.state>> = saved[1]
    /\ Len(r.nodes) = Len(saved[2])
    /\ \A k \in 1..Len(r.nodes) :
          <<r.nodes[k].id, r.nodes[k].depth, r.nodes[k].role>>
              = <<saved[2][k][2], saved[2][k][3], saved[2][k][4].role>>
    /\ Len(r.genes) = Len(saved[3])
    /\ \A k \in 1..Len(r.genes) :
          <<r.genes[k].type, r.genes[k].id, r.genes[k].id_in, r.genes[k].id_out,
            r.genes[k].enabled>>
              = <<saved[3][k][1], saved[3][k][2], saved[3][k][3], saved[3][k][4],
                  saved[3][k][5].enabled>>
    /\ r.acc = saved[4]
    /\ DOMAIN r.nodes_by_id = {r.nodes[k].id : k \in 1..Len(r.nodes)}
    /\ \A id \in DOMAIN r.nodes_by_id : r.nodes[r.nodes_by_id[id]].id = id
    /\ DOMAIN r.genes_by_id = {r.genes[k].id : k \in 1..Len(r.genes)}
    /\ \A id \in DOMAIN r.genes_by_id : r.genes[r.genes_by_id[id]].id = id

\* C10 as the code has it: load of a 5-field save takes optimizer, nodes,
\* genes and acc from the save and rebuilds the maps; net_parameters is the
\* save's when load_params is true and None otherwise; loss, trained,
\* no_change and reward keep the values they had before the call.
C10_Load5 ==
    \A saved \in Saves5, load_params \in BOOLEAN :
        LET r == load(lgenome, saved, load_params)
        IN  /\ Load5FromSave(r, saved)
            /\ r.net_parameters = IF load_params THEN saved[5] ELSE NoneValue
            /\ <<r.loss, r.trained, r.no_change, r.reward>>
                  = <<lgenome.loss, lgenome.trained, lgenome.no_change,
                      lgenome.reward>>

\* A 5-field save was loaded into a genome that an earlier load had given
\* bookkeeping other than the defaults; it still has it.
C10_Witness ==
    /\ loaded # <<>>
    /\ loaded.fields = 5
    /\ lgenome.trained = 1 /\ lgenome.reward = 1 /\ lgenome.no_change = 1
    /\ lgenome.loss # Infinity

\* C10 as stated: after load of a 5-field save (load_params at its default)
\* optimizer, nodes, genes, acc and net_parameters are the save's, and
\* loss = inf, trained = 0, no_change = 0, reward = 0 whatever they were.
C10_Load5AsStated ==
    \A saved \in Saves5 :
        LET r == load(lgenome, saved, TRUE)
        IN  /\ Load5FromSave(r, saved)
            /\ r.net_parameters = saved[5]
            /\ <<r.loss, r.trained, r.no_change, r.reward>>
                  = <<Infinity, 0, 0, 0>>

\* C7: when evolve has ended, every genome was evaluated once, the scores
\* of the ranking ascend, the list has n entries, positions 1..n\div 4 hold
\* newly constructed genomes, positions n\div 4+1..3n\div 4 the genomes that
\* ranked there, each with one mutate_random call that returned, and the
\* positions above hold the genomes that ranked there, unchanged.
C7_Evolve ==
    population.evolved >= 1 =>
        LET P == population
            n == PopSize
        IN  /\ P.evaluated = [k \in 1..n |-> 1]
            /\ \A k \in 1..(n - 1) : P.scores[k] <= P.scores[k + 1]
            /\ Len(P.genomes) = n
            /\ \A k \in LowestQuarter(n) :
                  /\ P.genomes[k] = ProtoGenome(P.genomes[k].uid)
                  /\ \A j \in 1..n : P.ranked[j].uid # P.genomes[k].uid
            /\ \A k \in MiddleHalf(n) :
                  /\ P.genomes[k].uid = P.ranked[k].uid
                  /\ k \in P.returned
            /\ \A k \in 1..n :
                  k \notin LowestQuarter(n) \cup MiddleHalf(n)
                      => P.genomes[k] = P.ranked[k]

\* evolve has raised in the mutate_random of the first middle genome, whose
\* list holds the None that Gene.copy returned; the second middle genome is
\* as it ranked.
C7_Witness ==
    /\ population.raised
    /\ HasNone(population.genomes[PopSize \div 4 + 1].genes)
    /\ population.genomes[PopSize \div 4 + 2] = population.ranked[PopSize \div 4 + 2]
    /\ population.returned = {}

\* C11: a genome compared to itself has S = 0, D = 0, K = 0 and X = 0, and
\* the computation ends without ZeroDivisionError (no common node id) and
\* without ValueError (max of no gene id).
C11_SelfDissimilarity ==
    \A i \in 1..NGenomes :
        LET r == dissimilarity(genomes[i], i, genomes[i], i)
        IN  /\ r.raised = "none"
            /\ r.S = 0 /\ r.D = 0 /\ r.X = 0
            /\ r.K[1] = 0 /\ r.K[2] > 0

\* A genome that both structural operators have changed is compared to
\* itself: it has a disabled gene, an added gene and a split node.
C11_Witness ==
    \E i \in 1..NGenomes :
        /\ Len(genomes[i].nodes) > 3
        /\ Len(genomes[i].genes) > 4
        /\ dissimilarity(genomes[i], i, genomes[i], i).raised = "none"
        /\ DOMAIN genomes[i].genes_by_id = GeneIds(genomes[i])

\* The parameter fields of a gene of each class.
ParameterFields(type) ==
    CASE type = "KernelGene" -> {"depth", "width", "height", "stride", "padding"}
      [] type = "PoolGene" -> {"pooling", "width", "height", "padding"}
      [] type = "DenseGene" -> {"size_change", "activation"}

\* C12: for every gene reached through its constructor and its field
\* mutators, copy(id, id_in, id_out) returns a gene of the same class with
\* the given id and endpoints and with every parameter field equal to the
\* gene's.
C12_Copy ==
    \A c \in gene_copy(kgene, 9, 7, 8) :
        /\ c.type = kgene.type
        /\ <<c.id, c.id_in, c.id_out>> = <<9, 7, 8>>
        /\ \A f \in ParameterFields(kgene.type) : c[f] = kgene[f]

\* A field mutator has changed the gene that is copied.
C12_Witness ==
    /\ kgene.type = "DenseGene"
    /\ kgene.size_change \notin SizeChanges
    /\ kgene.size_change # 0
    /\ \A c \in gene_copy(kgene, 9, 7, 8) : c.size_change = kgene.size_change

\* The gene h differs from the gene g in no field but f.
OnlyField(g, h, f) ==
    /\ DOMAIN h = DOMAIN g
    /\ \A x \in DOMAIN g : x # f => h[x] = g[x]

\* C14: each of mutate_depth, mutate_width, mutate_height, mutate_stride and
\* mutate_padding of a KernelGene adds one of -2, -1, 1, 2 to the field it is
\* named for (a positive size is floored at 1) and changes no other field.
C14_KernelMutators ==
    kgene.type = "KernelGene" =>
        \A r \in Nudges :
            /\ OnlyField(kgene, kernel_mutate_depth(kgene, r), "depth")
            /\ kernel_mutate_depth(kgene, r).depth = Floor1(kgene.depth + r)
            /\ OnlyField(kgene, kernel_mutate_width(kgene, r), "width")
            /\ kernel_mutate_width(kgene, r).width = Floor1(kgene.width + r)
            /\ OnlyField(kgene, kernel_mutate_height(kgene, r), "height")
            /\ kernel_mutate_height(kgene, r).height = Floor1(kgene.height + r)
            /\ OnlyField(kgene, kernel_mutate_stride(kgene, r), "stride")
            /\ kernel_mutate_stride(kgene, r).stride = Floor1(kgene.stride + r)
            /\ OnlyField(kgene, kernel_mutate_padding(kgene, r), "padding")
            /\ kernel_mutate_padding(kgene, r).padding
                  \in {kgene.padding + r, Floor1(kgene.padding + r)}

\* Field mutators have run on a KernelGene: its depth is above every depth
\* the constructor was given, its stride and padding are as constructed.
C14_Witness ==
    /\ kgene.type = "KernelGene"
    /\ kgene.depth = MaxMutated
    /\ kgene.stride = MaxStride
    /\ kgene.padding = MaxPadding

\* Disabling the gene at pos cuts node 2 off from node 0.
CutsOff(G, pos) ==
    2 \notin Closure([G.genes EXCEPT ![pos].enabled = FALSE], {0})

\* C13 (amended): mutate_disable_edge draws at most `tries` genes, each from
\* the genes enabled when it was called; it stops at the first draw whose
\* disabling leaves node 2 reachable and disables that gene only; when every
\* draw is taken back, every enabled flag is as before the call.
C13_Retry ==
    \A i \in 1..NGenomes :
        LET G == genomes[i] IN
        \A picks \in PickSeqs(EnabledEdges(G.genes), DisableTries) :
            LET r == mutate_disable_edge(G, picks)
                held == {k \in 1..Len(picks) : ~CutsOff(G, picks[k])}
            IN  /\ r.drawn <= DisableTries
                /\ held = {} => r.genome = G
                /\ held # {} =>
                    /\ r.drawn \in held
                    /\ \A k \in held : r.drawn <= k
                    /\ r.genome = [G EXCEPT !.genes[picks[r.drawn]].enabled = FALSE]

\* C13 as stated: moreover, the draw after one that was taken back is a
\* different gene.
C13_RetryAsStated ==
    /\ C13_Retry
    /\ \A i \in 1..NGenomes :
        \A picks \in PickSeqs(EnabledEdges(genomes[i].genes), DisableTries) :
            \A k \in 1..(Len(picks) - 1) :
                (\A j \in 1..k : CutsOff(genomes[i], picks[j]))
                    => picks[k + 1] # picks[k]

\* mutate_disable_edge has disabled a gene, and the genome has an enabled
\* gene whose disabling is taken back and one whose disabling holds.
C13_Witness ==
    \E i \in 1..NGenomes :
        /\ \E k \in 1..Len(genomes[i].genes) :
              /\ ~genomes[i].genes[k].enabled
              /\ genomes[i].genes[k].id \notin DOMAIN this_gen_mutations
        /\ \E p, q \in EnabledEdges(genomes[i].genes) :
              CutsOff(genomes[i], p) /\ ~CutsOff(genomes[i], q)

\* Every gene of the genome goes from a node to a strictly deeper node.
FeedForward(G) ==
    \A k \in 1..Len(G.genes) : \A a, b \in 1..Len(G.nodes) :
        G.nodes[a].id = G.genes[k].id_in /\ G.nodes[b].id = G.genes[k].id_out
            => FLess(G.nodes[a].depth, G.nodes[b].depth)

\* The size the claim gives the node of id `id`: the input size for node 0,
\* else the merge of the output sizes of its enabled incoming genes whose
\* source is reachable, in the order of the gene list.
RECURSIVE StatedSize(_, _, _, _)
StatedSize(G, id, input_size, fuel) ==
    IF id = 0 \/ fuel = 0 THEN input_size
    ELSE LET in_edges == SelectSeq(G.genes, LAMBDA e :
                            /\ e.enabled /\ e.id_out = id
                            /\ e.id_in \in Closure(G.genes, {0}))
         IN  [node |-> id,
              merge |-> [j \in 1..Len(in_edges) |->
                            [gene |-> in_edges[j].id,
                             of |-> StatedSize(G, in_edges[j].id_in,
                                               input_size, fuel - 1)]]]

\* The sizes are as the claim states them.
SizesAsStated(G, input_size) ==
    LET sizes == set_sizes(G, input_size)
    IN  \A p \in 1..Len(G.nodes) :
            IF G.nodes[p].id \in Closure(G.genes, {0})
            THEN sizes[p] = StatedSize(G, G.nodes[p].id, input_size, Len(G.nodes))
            ELSE sizes[p] = <<>>

\* The input size of the examples.
InputSize == <<1, 10, 10>>

\* C15: in every reachable genome set_sizes(input_size) gives node 0 the
\* input size, every other node reachable from node 0 along enabled genes
\* the merge of the output sizes of its enabled incoming genes with a
\* reachable source, and every other node no size; set_sizes(None) leaves no
\* node with a size.
C15_SetSizes ==
    \A i \in 1..NGenomes :
        /\ SizesAsStated(genomes[i], InputSize)
        /\ \A p \in 1..Len(genomes[i].nodes) : set_sizes(genomes[i], <<>>)[p] = <<>>

\* The same for the genomes whose genes all go to a strictly deeper node.
C15_SetSizesFeedForward ==
    \A i \in 1..NGenomes :
        /\ FeedForward(genomes[i]) => SizesAsStated(genomes[i], InputSize)
        /\ \A p \in 1..Len(genomes[i].nodes) : set_sizes(genomes[i], <<>>)[p] = <<>>

\* A genome with a node that no enabled gene reaches (it has no size) and a
\* node that two enabled genes reach from sized nodes (its size is a merge
\* of two).
C15_Witness ==
    \E i \in 1..NGenomes :
        LET G == genomes[i]
            sizes == set_sizes(G, InputSize)
        IN  /\ FeedForward(G)
            /\ \E p \in 1..Len(G.nodes) : sizes[p] = <<>>
            /\ \E p \in 1..Len(G.nodes) :
                  sizes[p] # <<>> /\ G.nodes[p].id # 0 /\ Len(sizes[p].merge) = 2

\* The ids under which exactly one of two genomes holds a gene.
OneSided(G1, G2) ==
    (DOMAIN G1.genes_by_id \ DOMAIN G2.genes_by_id)
        \cup (DOMAIN G2.genes_by_id \ DOMAIN G1.genes_by_id)

\* C16: for any two genomes that hold genes, dissimilarity counts no excess
\* gene (E = 0), and D is the number of gene ids that exactly one of the two
\* genomes holds.
C16_NoExcess ==
    \A i, j \in 1..NGenomes :
        LET r == dissimilarity(genomes[i], i, genomes[j], j)
        IN  (DOMAIN genomes[i].genes_by_id # {} /\ DOMAIN genomes[j].genes_by_id # {})
                => /\ r.raised = "none"
                   /\ r.E = 0
                   /\ r.D = Cardinality(OneSided(genomes[i], genomes[j]))

\* Two genomes are compared of which one alone holds the gene with the
\* highest id of both, and the other alone holds a gene, too.
C16_Witness ==
    \E i, j \in 1..NGenomes :
        LET ids_1 == DOMAIN genomes[i].genes_by_id
            ids_2 == DOMAIN genomes[j].genes_by_id
        IN  /\ SetMax(ids_1 \cup ids_2) \in ids_1 \ ids_2
            /\ ids_2 \ ids_1 # {}
            /\ dissimilarity(genomes[i], i, genomes[j], j).D >= 2

\* The lookup maps of a genome are in lockstep with its lists: no id is
\* twice in `genes` or in `nodes`, each map has exactly the ids of its list
\* as keys and maps every id to the list entry that carries it.
Lockstep(G) ==
    /\ \A p, q \in 1..Len(G.genes) : G.genes[p].id = G.genes[q].id => p = q
    /\ \A p, q \in 1..Len(G.nodes) : G.nodes[p].id = G.nodes[q].id => p = q
    /\ DOMAIN G.genes_by_id = GeneIds(G)
    /\ DOMAIN G.nodes_by_id = NodeIds(G)
    /\ \A p \in 1..Len(G.genes) : G.genes_by_id[G.genes[p].id] = p
    /\ \A p \in 1..Len(G.nodes) : G.nodes_by_id[G.nodes[p].id] = p

SplitAgain(G, H) ==
    /\ Len(H.nodes) = Len(G.nodes) + 1
    /\ H.nodes[Len(H.nodes)].id \in NodeIds(G)

Acyclic(genes) ==
    \A k \in EnabledEdges(genes) :
        genes[k].id_in \notin Closure(genes, {genes[k].id_out})

\* dfs(0, 2) returns, and returns true exactly when node 2 is reached from
\* node 0 along enabled genes.
DfsAnswers(genes) ==
    /\ dfs(genes, 0, 2, DfsFuel(genes)) # "overflow"
    /\ dfs(genes, 0, 2, DfsFuel(genes)) = "true" <=> 2 \in Closure(genes, {0})

\* The gene list disable_edge calls dfs on: the gene at pos disabled.
Without(genes, pos) == [genes EXCEPT ![pos].enabled = FALSE]

\* C18: in every reachable genome the enabled genes form no directed cycle,
\* and dfs(0, 2), on the genome and on the genome with any one gene disabled
\* as disable_edge calls it, returns, with true exactly when a path of
\* enabled genes leads from node 0 to node 2.
C18_Dfs ==
    \A i \in 1..NGenomes :
        /\ Acyclic(genomes[i].genes)
        /\ DfsAnswers(genomes[i].genes)
        /\ \A pos \in EnabledEdges(genomes[i].genes) :
            DfsAnswers(Without(genomes[i].genes, pos))

\* disable_edge finds, in one genome, a gene without which dfs(0, 2) is
\* false, and one without which it is true by a path that is not the first
\* it tries.
C18_Witness ==
    \E i \in 1..NGenomes :
        LET G == genomes[i] IN
        /\ \E pos \in EnabledEdges(G.genes) :
            dfs(Without(G.genes, pos), 0, 2, DfsFuel(G.genes)) = "false"
        /\ \E pos \in EnabledEdges(G.genes) :
            /\ dfs(Without(G.genes, pos), 0, 2, DfsFuel(G.genes)) = "true"
            /\ dfs_first(Without(G.genes, pos), 0, 2, DfsFuel(G.genes)) = "false"

\* The layers of the node at position p: the groups that hold p.
LayersOf(groups, p) ==
    {l \in 1..Len(groups) : \E k \in 1..Len(groups[l]) : groups[l][k] = p}

\* group_by returns two layers or more, graph_positioning divides by a
\* number that is not 0, and every node is in exactly one layer.
Layered(G) ==
    /\ Len(group_by(G)) >= 2
    /\ graph_positioning(G).raised = "none"
    /\ \A p \in 1..Len(G.nodes) : Cardinality(LayersOf(group_by(G), p)) = 1
    /\ \A l \in 1..Len(group_by(G)) : \A j, k \in 1..Len(group_by(G)[l]) :
            group_by(G)[l][j] = group_by(G)[l][k] => j = k

\* No enabled gene connects two nodes of one layer.
NoGeneInLayer(G) ==
    \A l \in 1..Len(group_by(G)) : \A j, k \in 1..Len(group_by(G)[l]) :
        \A e \in EnabledEdges(G.genes) :
            ~(/\ G.genes[e].id_in = G.nodes[group_by(G)[l][j]].id
              /\ G.genes[e].id_out = G.nodes[group_by(G)[l][k]].id)

\* C19: for every reachable genome group_by returns at least 2 layers, so
\* that graph_positioning does not divide by zero, every node is in exactly
\* one layer, and no enabled gene connects two nodes of one layer.
C19_GroupBy ==
    \A i \in 1..NGenomes : Layered(genomes[i]) /\ NoGeneInLayer(genomes[i])

\* The layers are two or more and hold every node once in every reachable
\* genome; no enabled gene lies in a layer of a genome whose genes all go to
\* a strictly deeper node.
C19_GroupByFeedForward ==
    \A i \in 1..NGenomes :
        /\ Layered(genomes[i])
        /\ FeedForward(genomes[i]) => NoGeneInLayer(genomes[i])

\* group_by has put two nodes into one layer and an enabled gene leads from
\* one to the other: a node split_edge gave the depth of the node its second
\* gene leads to.
C19_Witness ==
    \E i \in 1..NGenomes :
        /\ ~FeedForward(genomes[i])
        /\ Len(group_by(genomes[i])) >= 3
        /\ \E l \in 1..Len(group_by(genomes[i])) : Len(group_by(genomes[i])[l]) >= 2
        /\ ~NoGeneInLayer(genomes[i])

====
